---- MODULE Spec2Model ----
(***************************************************************************)
(* The cubemap skybox of src/skybox.rs: the Cubemap resource and the three *)
(* systems that drive it (setup, cycle_cubemap_asset, asset_loaded), the   *)
(* asset server and render asset cache they talk to, and                   *)
(* CubemapMaterial::as_bind_group.                                         *)
(*                                                                         *)
(* Time is counted in whole seconds.  A frame is: the clock advances, then *)
(* cycle_cubemap_asset, then asset_loaded, then the queued commands are    *)
(* applied.  The asset loader and the render world run beside the frames.  *)
(***************************************************************************)
EXTENDS Integers, Sequences, FiniteSets, TLC

\* ---------------------------------------------------------------- bounds
\* The run ends when the clock reaches MaxTime.
MaxTime == 8
\* The longest frame, in seconds (longer than the swap delay).
MaxDelta == 4
\* Loaded images are 1..MaxWidth wide and 1..MaxHeight high.
MaxWidth == 2
MaxHeight == 12
\* Image handles are 1..NumHandles; handle 1 is the cubemap's path.
NumHandles == 2
\* GPU texture views and samplers are named 1..MaxGpuId.
MaxGpuId == 2
\* The device creates at most this many bind groups.
MaxBindGroups == 2

\* ------------------------------------------------------- program constants
CUBEMAP_PATH == "textures/Ryfjallet_cubemap_etc2.ktx2"
CUBEMAP_FORMAT == "ETC2"
CUBEMAP_SWAP_DELAY == 3

Handles == 1 .. NumHandles
\* Option<Handle<Image>>: 0 is None.
OptHandles == 0 .. NumHandles

VARIABLES
    pc,                \* the scheduler's position in the frame
    now,               \* Time::elapsed_seconds
    next_swap,         \* cycle_cubemap_asset's Local<f32>
    last_fired,        \* history: the time the swap timer last fired (0: never)
    features,          \* RenderDevice::features
    cubemap,           \* the Cubemap resource
    load_state,        \* AssetServer: the load state of every handle
    images,            \* Assets<Image>
    cubemap_materials, \* Assets<CubemapMaterial>: material id -> base_color_texture
    cubes,             \* the entities carrying a Handle<CubemapMaterial>
    commands,          \* Commands queued by asset_loaded, not yet applied
    render_images,     \* RenderAssets<Image>
    bind_groups,       \* the number of bind groups the device has created
    prepared,          \* the last as_bind_group call: its inputs and its result
    panic,             \* "" or the message the process aborted with
    requests,          \* history: the handles issued by load requests, in order
    polled,            \* history: the image the last completed poll found
    observed,          \* history: the handles a poll of asset_loaded saw Loaded
    trace              \* history: the states the machine went through

vars == <<pc, now, next_swap, last_fired, features, cubemap, load_state, images,
          cubemap_materials, cubes, commands, render_images, bind_groups,
          prepared, panic, requests, polled, observed, trace>>

\* The process runs: it has not aborted and the clock has not run out.
Running == panic = "" /\ ~(pc = "time" /\ now >= MaxTime)

\* ------------------------------------------------------------ the device
DeviceFeatures == {"TEXTURE_COMPRESSION_BC", "TEXTURE_COMPRESSION_ETC2"}

\* CompressedImageFormats::from_features
FromFeatures(fs) ==
    {f \in {"BC", "ETC2"} :
        \/ f = "BC" /\ "TEXTURE_COMPRESSION_BC" \in fs
        \/ f = "ETC2" /\ "TEXTURE_COMPRESSION_ETC2" \in fs}

\* ------------------------------------------------------- the asset server
\* The handle of a path: the same path gives the same handle.
HandleOf(path) == IF path = CUBEMAP_PATH THEN 1 ELSE NumHandles

\* AssetServer::load starts the load of a path that is not loading or loaded.
AssetServerLoad(ls, path) ==
    IF ls[HandleOf(path)] = "NotLoaded"
    THEN [ls EXCEPT ![HandleOf(path)] = "Loading"]
    ELSE ls

NoImage == [present |-> FALSE, width |-> 0, height |-> 0, layers |-> 0,
            view_dimension |-> "None"]

\* The images a finished load can leave in Assets<Image>: a flat image of one
\* layer, or a container that carries its six faces as layers.
LoadedImages ==
    {[present |-> TRUE, width |-> w, height |-> h, layers |-> 1,
      view_dimension |-> "None"] : w \in 1 .. MaxWidth, h \in 1 .. MaxHeight}
    \cup
    {[present |-> TRUE, width |-> w, height |-> w, layers |-> 6,
      view_dimension |-> d] : w \in 1 .. MaxWidth, d \in {"None", "Cube"}}

\* --------------------------------------------------------- the render world
NoGpuImage == [present |-> FALSE, texture_view |-> 0, sampler |-> 0]

\* Preparing an image creates its texture view and its sampler together:
\* one number names the pair.
GpuImages ==
    {[present |-> TRUE, texture_view |-> g, sampler |-> g] : g \in 1 .. MaxGpuId}

\* self.base_color_texture.as_ref().ok_or(RetryNextUpdate)?
TextureUnset(material) == material.base_color_texture = 0

\* images.get(base_color_texture).ok_or(RetryNextUpdate)?
ImageMissing(material, rimages) ==
    ~rimages[material.base_color_texture].present

RetryNextUpdate ==
    [ok |-> FALSE, error |-> "RetryNextUpdate", bind_group |-> 0,
     entries |-> <<>>, bindings |-> <<>>,
     data |-> [base_color_texture |-> 0]]

BindGroupEntries_Swapped(image) ==
    <<[binding |-> 0, resource |-> <<"Sampler", image.sampler>>],
      [binding |-> 1, resource |-> <<"TextureView", image.texture_view>>]>>

\* The BindGroupDescriptor's entries: binding 0 the view, binding 1 the sampler.
BindGroupEntries(image) ==
    <<[binding |-> 0, resource |-> <<"TextureView", image.texture_view>>],
      [binding |-> 1, resource |-> <<"Sampler", image.sampler>>]>>

\* PreparedBindGroup.bindings
OwnedBindings(image) ==
    <<<<"TextureView", image.texture_view>>, <<"Sampler", image.sampler>>>>

\* As as_bind_group, but binding the fallback image when the texture is unset.
AsBindGroup_Fallback(material, rimages, created) ==
    LET image == IF TextureUnset(material)
                 THEN [present |-> TRUE, texture_view |-> 0, sampler |-> 0]
                 ELSE rimages[material.base_color_texture]
    IN IF ~image.present THEN RetryNextUpdate
       ELSE [ok |-> TRUE, error |-> "", bind_group |-> created + 1,
             entries |-> BindGroupEntries(image),
             bindings |-> OwnedBindings(image),
             data |-> [base_color_texture |-> 0]]

\* As as_bind_group, but owning a texture view made anew by every call.
AsBindGroup_FreshView(material, rimages, created) ==
    IF TextureUnset(material) THEN RetryNextUpdate
    ELSE IF ImageMissing(material, rimages) THEN RetryNextUpdate
    ELSE LET image == rimages[material.base_color_texture]
         IN [ok |-> TRUE, error |-> "", bind_group |-> created + 1,
             entries |-> BindGroupEntries(image),
             bindings |-> <<<<"TextureView", created + 1>>,
                            <<"Sampler", image.sampler>>>>,
             data |-> [base_color_texture |-> 0]]

\* CubemapMaterial::as_bind_group on a device that has created `created`
\* bind groups: create_bind_group returns a new one.
AsBindGroup(material, rimages, created) ==
    IF TextureUnset(material) THEN RetryNextUpdate
    ELSE IF ImageMissing(material, rimages) THEN RetryNextUpdate
    ELSE LET image == rimages[material.base_color_texture]
         IN [ok |-> TRUE, error |-> "", bind_group |-> created + 1,
             entries |-> BindGroupEntries(image),
             bindings |-> OwnedBindings(image),
             data |-> [base_color_texture |-> 0]]

NotPrepared ==
    [called |-> FALSE, repeated |-> FALSE,
     material |-> [base_color_texture |-> 0], image |-> NoGpuImage,
     result |-> RetryNextUpdate]

\* The cache entry a material's texture resolves to.
Resolved(material, rimages) ==
    IF material.base_color_texture = 0 THEN NoGpuImage
    ELSE rimages[material.base_color_texture]

\* The render world prepares an image of Assets<Image>: it gets a texture
\* view and a sampler in RenderAssets<Image>, replacing what was there.
PrepareImage ==
    /\ Running
    /\ \E h \in Handles, gpu \in GpuImages :
        /\ images[h].present
        /\ render_images' = [render_images EXCEPT ![h] = gpu]
    /\ UNCHANGED <<pc, now, next_swap, last_fired, features, cubemap, load_state,
                   images, cubemap_materials, cubes, commands, bind_groups,
                   prepared, panic, requests, polled, observed, trace>>

\* The render world calls as_bind_group on a material.
Prepare(material) ==
    /\ bind_groups < MaxBindGroups
    /\ LET result == AsBindGroup(material, render_images, bind_groups)
       IN /\ prepared' =
                [called |-> TRUE,
                 repeated |-> /\ prepared.called
                              /\ prepared.material = material
                              /\ prepared.image = Resolved(material, render_images),
                 material |-> material,
                 image |-> Resolved(material, render_images),
                 result |-> result]
          /\ bind_groups' = IF result.ok THEN bind_groups + 1 ELSE bind_groups

\* As PrepareMaterial, but the call takes the texture out of the material.
PrepareMaterial_TakesTexture ==
    /\ Running
    /\ \E m \in DOMAIN cubemap_materials :
        /\ Prepare(cubemap_materials[m])
        /\ cubemap_materials' =
              [cubemap_materials EXCEPT ![m].base_color_texture = 0]
    /\ UNCHANGED <<pc, now, next_swap, last_fired, features, cubemap, load_state,
                   images, cubes, commands, render_images,
                   panic, requests, polled, observed, trace>>

PrepareMaterial ==
    /\ Running
    /\ \E m \in DOMAIN cubemap_materials : Prepare(cubemap_materials[m])
    /\ UNCHANGED <<pc, now, next_swap, last_fired, features, cubemap, load_state,
                   images, cubemap_materials, cubes, commands, render_images,
                   panic, requests, polled, observed, trace>>

\* ------------------------------------------------------------- the schedule
\* asset_loaded polls before cycle_cubemap_asset has run.
NextSystem_PollFirst(system) ==
    CASE system = "time" -> "poll"
      [] system = "poll" -> "cycle"
      [] system = "cycle" -> "apply"
      [] system = "apply" -> "time"

\* The order of a frame: the clock, cycle_cubemap_asset, then asset_loaded
\* (added .after(cycle_cubemap_asset)), then the queued commands.
NextSystem(system) ==
    CASE system = "time" -> "cycle"
      [] system = "cycle" -> "poll"
      [] system = "poll" -> "apply"
      [] system = "apply" -> "time"

\* ------------------------------------------------------------------ setup
UnsetCubemap == [is_loaded |-> FALSE, index |-> 0, image_handle |-> 0]

Init ==
    /\ pc = "startup"
    /\ now = 0
    /\ next_swap = 0
    /\ last_fired = 0
    /\ features \in SUBSET DeviceFeatures
    /\ cubemap = UnsetCubemap
    /\ load_state = [h \in Handles |-> "NotLoaded"]
    /\ images = [h \in Handles |-> NoImage]
    /\ cubemap_materials = <<>>
    /\ cubes = <<>>
    /\ commands = <<>>
    /\ render_images = [h \in Handles |-> NoGpuImage]
    /\ bind_groups = 0
    /\ prepared = NotPrepared
    /\ panic = ""
    /\ requests = <<>>
    /\ polled = NoImage
    /\ observed = {}
    /\ trace = <<<<"Unloaded", 0>>>>

\* setup, with the startup schedule applying its insert_resource command.
Setup ==
    /\ pc = "startup"
    /\ Running
    /\ load_state' = AssetServerLoad(load_state, CUBEMAP_PATH)
    /\ cubemap' = [is_loaded |-> FALSE, index |-> 0,
                   image_handle |-> HandleOf(CUBEMAP_PATH)]
    /\ requests' = Append(requests, HandleOf(CUBEMAP_PATH))
    /\ trace' = Append(trace, <<"Loading", HandleOf(CUBEMAP_PATH)>>)
    /\ pc' = "time"
    /\ UNCHANGED <<now, next_swap, last_fired, features, images, cubemap_materials,
                   cubes, commands, render_images, bind_groups, prepared, panic,
                   polled, observed>>

\* The clock advances at the start of a frame.
TimeUpdate ==
    /\ pc = "time"
    /\ Running
    /\ \E dt \in 1 .. MaxDelta :
        /\ now + dt <= MaxTime
        /\ now' = now + dt
    /\ pc' = NextSystem("time")
    /\ UNCHANGED <<next_swap, last_fired, features, cubemap, load_state, images,
                   cubemap_materials, cubes, commands, render_images, bind_groups,
                   prepared, panic, requests, polled, observed, trace>>

\* ---------------------------------------------------- cycle_cubemap_asset
TimerUnarmed_Never(ns) == FALSE

\* The first invocation finds the local at 0.0 and only arms the timer.
TimerUnarmed(ns) == ns = 0

TimerWaits_Reversed(t, ns) == t > ns

TimerWaits_Inclusive(t, ns) == t <= ns

\* An armed timer that has not run out returns early.
TimerWaits(t, ns) == t < ns

\* The device lacks the configured format.
FormatUnsupported_Skipped(fs) == FALSE

FormatUnsupported(fs) == ~(CUBEMAP_FORMAT \in FromFeatures(fs))

NewIndex_Advances(cm) == (cm.index + 1) % 2

\* let mut new_index = cubemap.index; nothing assigns it afterwards.
NewIndex(cm) == cm.index

UnsupportedMessage == "Skipping unsupported format: " \o CUBEMAP_FORMAT

CycleCubemapAsset ==
    /\ pc = "cycle"
    /\ Running
    /\ IF TimerUnarmed(next_swap)
       THEN /\ next_swap' = now + CUBEMAP_SWAP_DELAY
            /\ pc' = NextSystem("cycle")
            /\ UNCHANGED <<last_fired, cubemap, load_state, panic, requests, trace>>
       ELSE IF TimerWaits(now, next_swap)
       THEN /\ pc' = NextSystem("cycle")
            /\ UNCHANGED <<next_swap, last_fired, cubemap, load_state, panic,
                           requests, trace>>
       ELSE /\ next_swap' = next_swap + CUBEMAP_SWAP_DELAY
            /\ last_fired' = now
            /\ IF FormatUnsupported(features)
               THEN /\ panic' = UnsupportedMessage
                    /\ UNCHANGED <<pc, cubemap, load_state, requests, trace>>
               ELSE IF NewIndex(cubemap) = cubemap.index
               THEN /\ pc' = NextSystem("cycle")
                    /\ UNCHANGED <<cubemap, load_state, panic, requests, trace>>
               ELSE /\ cubemap' = [is_loaded |-> FALSE, index |-> NewIndex(cubemap),
                                   image_handle |-> HandleOf(CUBEMAP_PATH)]
                    /\ load_state' = AssetServerLoad(load_state, CUBEMAP_PATH)
                    /\ requests' = Append(requests, HandleOf(CUBEMAP_PATH))
                    /\ trace' = Append(trace, <<"Loading", HandleOf(CUBEMAP_PATH)>>)
                    /\ pc' = NextSystem("cycle")
                    /\ UNCHANGED panic
    /\ UNCHANGED <<now, features, images, cubemap_materials, cubes, commands,
                   render_images, bind_groups, prepared, polled, observed>>

\* ------------------------------------------------------------ asset_loaded
\* The poll: the machine is not Loaded and the asset server reports Loaded
\* for the tracked handle.
LoadCompleted_Repolls(cm, ls) == ls[cm.image_handle] = "Loaded"

LoadCompleted_Inverted(cm, ls) ==
    cm.is_loaded /\ ls[cm.image_handle] = "Loaded"

LoadCompleted_OnFailed(cm, ls) ==
    ~cm.is_loaded /\ ls[cm.image_handle] \in {"Loaded", "Failed"}

LoadCompleted(cm, ls) ==
    ~cm.is_loaded /\ ls[cm.image_handle] = "Loaded"

StackedLayers_Swapped(image) == image.width \div image.height

\* The layer count asset_loaded asks for: height / width, in u32.
StackedLayers(image) == image.height \div image.width

\* Image::reinterpret_stacked_2d_as_array(layers) asserts that the image has
\* one layer and that its height is a multiple of `layers`; a remainder by
\* zero aborts as well.
ReinterpretPanics(image, layers) ==
    \/ image.layers # 1
    \/ layers = 0
    \/ image.height % layers # 0

ReinterpretStacked2dAsArray(image, layers) ==
    [image EXCEPT !.height = image.height \div layers, !.layers = layers]

NeedsReinterpret_Always(image) == TRUE

\* if image.texture_descriptor.array_layer_count() == 1 { ... }
NeedsReinterpret(image) == image.layers = 1

Reinterpreted_Skipped(image) == image

\* The image after the reinterpretation block.
Reinterpreted(image) ==
    IF NeedsReinterpret(image)
    THEN [ReinterpretStacked2dAsArray(image, StackedLayers(image))
            EXCEPT !.view_dimension = "Cube"]
    ELSE image

\* for handle in cubes.iter() { if let Some(material) = ...get_mut(handle) }
\* The entities whose material is in Assets<CubemapMaterial>.
Updatable(cs, mats) == {i \in DOMAIN cs : cs[i] \in DOMAIN mats}

\* let mut updated = false; ... updated = true;
Updated_Always(cs, mats) == TRUE

Updated(cs, mats) == Updatable(cs, mats) # {}

\* material.base_color_texture = Some(handle) for every material found.
RewriteMaterials(cs, mats, handle) ==
    [m \in DOMAIN mats |->
        IF \E i \in Updatable(cs, mats) : cs[i] = m
        THEN [mats[m] EXCEPT !.base_color_texture = handle]
        ELSE mats[m]]

ReinterpretMessage == "reinterpret_stacked_2d_as_array"

\* images.get_mut(&cubemap.image_handle).unwrap()
UnwrapMessage == "called Option::unwrap() on a None value"

AssetLoaded ==
    /\ pc = "poll"
    /\ Running
    /\ observed' = IF load_state[cubemap.image_handle] = "Loaded"
                   THEN observed \cup {cubemap.image_handle}
                   ELSE observed
    /\ polled' = IF LoadCompleted(cubemap, load_state)
                 THEN images[cubemap.image_handle]
                 ELSE polled
    /\ IF LoadCompleted(cubemap, load_state)
       THEN LET handle == cubemap.image_handle
                image == images[handle]
            IN IF ~image.present
               THEN /\ panic' = UnwrapMessage
                    /\ UNCHANGED <<pc, cubemap, images, cubemap_materials,
                                   commands, trace>>
               ELSE IF \/ NeedsReinterpret(image) /\ image.width = 0
                       \/ NeedsReinterpret(image)
                             /\ ReinterpretPanics(image, StackedLayers(image))
               THEN /\ panic' = ReinterpretMessage
                    /\ UNCHANGED <<pc, cubemap, images, cubemap_materials,
                                   commands, trace>>
               ELSE /\ images' = [images EXCEPT ![handle] = Reinterpreted(image)]
                    /\ IF Updated(cubes, cubemap_materials)
                       THEN /\ cubemap_materials' =
                                  RewriteMaterials(cubes, cubemap_materials, handle)
                            /\ UNCHANGED commands
                       ELSE /\ cubemap_materials' =
                                  Append(cubemap_materials,
                                         [base_color_texture |-> handle])
                            /\ commands' =
                                  Append(commands, Len(cubemap_materials) + 1)
                    /\ cubemap' = [cubemap EXCEPT !.is_loaded = TRUE]
                    /\ trace' = Append(trace, <<"Loaded", handle>>)
                    /\ pc' = NextSystem("poll")
                    /\ UNCHANGED panic
       ELSE /\ pc' = NextSystem("poll")
            /\ UNCHANGED <<cubemap, images, cubemap_materials, commands, panic,
                           trace>>
    /\ UNCHANGED <<now, next_swap, last_fired, features, load_state, cubes,
                   render_images, bind_groups, prepared, requests>>

\* The schedule applies the queued commands after asset_loaded: every
\* commands.spawn becomes an entity.
ApplyCommands ==
    /\ pc = "apply"
    /\ Running
    /\ cubes' = cubes \o commands
    /\ commands' = <<>>
    /\ pc' = NextSystem("apply")
    /\ UNCHANGED <<now, next_swap, last_fired, features, cubemap, load_state,
                   images, cubemap_materials, render_images, bind_groups,
                   prepared, panic, requests, polled, observed, trace>>

\* -------------------------------------------------------- the asset loader
\* A load in flight finishes: the image is in Assets<Image> and the state is
\* Loaded, or the load fails.
LoadFinishes ==
    /\ Running
    /\ \E h \in Handles :
        /\ load_state[h] = "Loading"
        /\ \/ \E image \in LoadedImages :
                /\ images' = [images EXCEPT ![h] = image]
                /\ load_state' = [load_state EXCEPT ![h] = "Loaded"]
           \/ /\ load_state' = [load_state EXCEPT ![h] = "Failed"]
              /\ UNCHANGED images
    /\ UNCHANGED <<pc, now, next_swap, last_fired, features, cubemap,
                   cubemap_materials, cubes, commands, render_images,
                   bind_groups, prepared, panic, requests, polled, observed, trace>>

Next ==
    \/ Setup
    \/ TimeUpdate
    \/ CycleCubemapAsset
    \/ AssetLoaded
    \/ ApplyCommands
    \/ LoadFinishes

Spec == Init /\ [][Next]_vars

\* The whole application: the frames, the loader and the render world.
AppNext ==
    \/ Next
    \/ PrepareImage
    \/ PrepareMaterial

AppSpec == Init /\ [][AppNext]_vars

\* The frames run on: the schedule runs every system of every frame.
FairSpec ==
    /\ Spec
    /\ WF_vars(Setup)
    /\ WF_vars(TimeUpdate)
    /\ WF_vars(CycleCubemapAsset)
    /\ WF_vars(AssetLoaded)
    /\ WF_vars(ApplyCommands)

\* ------------------------------------------------------------------ claims
\* The step cycle_cubemap_asset takes.
CycleStep == pc = "cycle" /\ (pc' = "poll" \/ panic' # "")

\* A timer firing: cycle_cubemap_asset runs with an armed timer that ran out.
TimerFires == CycleStep /\ panic = "" /\ next_swap # 0 /\ now >= next_swap

\* The step asset_loaded takes.
PollStep == pc = "poll" /\ (pc' = "apply" \/ panic' # "")

\* C1: the machine is Loaded only for a handle that a load request issued
\* with is_loaded = false and that a later poll of asset_loaded saw Loaded;
\* every Loaded in the machine's history directly follows Loading for the
\* same handle.
C1_LoadedOnlyAfterLoading ==
    /\ cubemap.is_loaded =>
          /\ \E i \in DOMAIN requests : requests[i] = cubemap.image_handle
          /\ cubemap.image_handle \in observed
          /\ load_state[cubemap.image_handle] = "Loaded"
          /\ trace[Len(trace)] = <<"Loaded", cubemap.image_handle>>
    /\ \A i \in DOMAIN trace :
          trace[i][1] = "Loaded" =>
              i > 1 /\ trace[i - 1] = <<"Loading", trace[i][2]>>

C1_Witness ==
    cubemap.is_loaded /\ trace[Len(trace)] = <<"Loaded", cubemap.image_handle>>

\* The loader has reported Loaded for the default asset, a flat strip with
\* H = 6W, on a device that supports the format, and a frame is still to come.
C2_StripLoaded ==
    /\ CUBEMAP_FORMAT \in FromFeatures(features)
    /\ cubemap.image_handle = HandleOf(CUBEMAP_PATH)
    /\ ~cubemap.is_loaded
    /\ load_state[HandleOf(CUBEMAP_PATH)] = "Loaded"
    /\ images[HandleOf(CUBEMAP_PATH)].layers = 1
    /\ images[HandleOf(CUBEMAP_PATH)].height
          = 6 * images[HandleOf(CUBEMAP_PATH)].width
    /\ (now < MaxTime \/ pc \in {"cycle", "poll"})

\* Loaded, six layers, one backdrop entity, in the order Unloaded, Loading,
\* Loaded.
C2_Goal ==
    /\ cubemap.is_loaded
    /\ images[HandleOf(CUBEMAP_PATH)].layers = 6
    /\ Len(cubes) = 1
    /\ trace = <<<<"Unloaded", 0>>, <<"Loading", HandleOf(CUBEMAP_PATH)>>,
                 <<"Loaded", HandleOf(CUBEMAP_PATH)>>>>

\* C2: on a device that supports the format, once the loader reports Loaded
\* for the default asset, a flat strip with H = 6W, and a frame is still to
\* come, the machine eventually is Loaded, the image has 6 layers, exactly one
\* backdrop entity exists, and the machine went Unloaded, Loading, Loaded.
C2_EventuallyLoaded == C2_StripLoaded ~> C2_Goal

C2_Witness == C2_Goal /\ polled.layers = 1 /\ polled.height = 6 * polled.width

\* Entities and queued spawns: never more than one, none before Loaded, and
\* exactly one entity once a Loaded machine's commands are applied.
C3_CountInvariant ==
    /\ Len(cubes) + Len(commands) <= 1
    /\ (cubemap.is_loaded /\ pc # "apply") => Len(cubes) = 1
    /\ ~cubemap.is_loaded => Len(cubes) + Len(commands) = 0

\* The Loading->Loaded step updates in place if it can, and spawns otherwise.
C3_StepRule ==
    (PollStep /\ ~cubemap.is_loaded /\ cubemap'.is_loaded) =>
        IF \E i \in DOMAIN cubes : cubes[i] \in DOMAIN cubemap_materials
        THEN /\ commands' = commands
             /\ Len(cubemap_materials') = Len(cubemap_materials)
             /\ \A i \in DOMAIN cubes :
                    cubemap_materials'[cubes[i]].base_color_texture
                        = cubemap.image_handle
        ELSE /\ Len(commands') = Len(commands) + 1
             /\ cubemap_materials'[commands'[Len(commands')]].base_color_texture
                    = cubemap.image_handle

\* C3: between frames a Loaded machine has exactly one backdrop entity and
\* there is never more than one; the Loading->Loaded step queues a spawn only
\* when it found no entity whose material it could update, and otherwise
\* rewrites the existing materials' texture reference in place.
C3_OneBackdrop == []C3_CountInvariant /\ [][C3_StepRule]_vars

C3_Witness == cubemap.is_loaded /\ pc = "time" /\ Len(cubes) = 1

\* What C4 asks of every step.
C4_Step ==
    /\ (TimerFires /\ ~(CUBEMAP_FORMAT \in FromFeatures(features))) =>
          /\ panic' = UnsupportedMessage
          /\ cubemap' = cubemap
          /\ requests' = requests
          /\ load_state' = load_state
    /\ panic # "" => vars' = vars

\* C4: a timer firing on a device that lacks the configured format aborts the
\* process in that step, with the Cubemap and the load requests untouched,
\* and no step follows an abort.
C4_UnsupportedAborts == [][C4_Step]_vars

C4_Witness == panic = UnsupportedMessage /\ last_fired = now

\* What C5 asks of every step.
C5_Step ==
    (TimerFires /\ CUBEMAP_FORMAT \in FromFeatures(features)) =>
        /\ cubemap' = cubemap
        /\ requests' = requests
        /\ load_state' = load_state
        /\ next_swap' = next_swap + CUBEMAP_SWAP_DELAY
        /\ panic' = ""

\* C5: a timer firing on a device that supports the format (the candidate is
\* the configured format, which is the active one) leaves the Cubemap as it
\* is, issues no load request, and moves next_swap on by the swap delay.
C5_SameFormatNoOp == [][C5_Step]_vars

C5_Witness ==
    /\ pc = "poll"
    /\ last_fired = now
    /\ panic = ""
    /\ cubemap.is_loaded
    /\ Len(requests) = 1

\* C6: as_bind_group on a material whose base_color_texture is None returns
\* RetryNextUpdate, whatever the render asset cache holds: no bind group is
\* created and the process does not abort.
C6_UnsetTextureDefers ==
    (prepared.called /\ prepared.material.base_color_texture = 0) =>
        /\ ~prepared.result.ok
        /\ prepared.result.error = "RetryNextUpdate"
        /\ prepared.result.bind_group = 0
        /\ prepared.result.bindings = <<>>
        /\ panic = ""

C6_Witness ==
    /\ prepared.called
    /\ prepared.material.base_color_texture = 0
    /\ \A h \in Handles : render_images[h].present

\* C7: as_bind_group on a material whose base_color_texture is set returns
\* RetryNextUpdate exactly when the cache holds no entry for that image;
\* otherwise it returns a bind group whose binding 0 is the entry's texture
\* view and whose binding 1 is the entry's sampler.
C7_SetTexture ==
    (prepared.called /\ prepared.material.base_color_texture # 0) =>
        /\ ~prepared.result.ok <=> ~prepared.image.present
        /\ ~prepared.result.ok =>
              /\ prepared.result.error = "RetryNextUpdate"
              /\ prepared.result.bind_group = 0
        /\ prepared.result.ok =>
              /\ prepared.result.bind_group > 0
              /\ prepared.result.entries =
                    <<[binding |-> 0,
                       resource |-> <<"TextureView", prepared.image.texture_view>>],
                      [binding |-> 1,
                       resource |-> <<"Sampler", prepared.image.sampler>>]>>
              /\ prepared.result.bindings =
                    <<<<"TextureView", prepared.image.texture_view>>,
                      <<"Sampler", prepared.image.sampler>>>>

C7_Witness ==
    /\ prepared.called
    /\ prepared.material.base_color_texture # 0
    /\ prepared.result.ok
    /\ \E h \in Handles : ~render_images[h].present

\* What C8 asks of every step.
C8_Step ==
    (prepared'.called /\ prepared'.repeated) =>
        /\ prepared'.result.ok = prepared.result.ok
        /\ prepared'.result.error = prepared.result.error
        /\ prepared'.result.entries = prepared.result.entries
        /\ prepared'.result.bindings = prepared.result.bindings
        /\ prepared'.result.data = prepared.result.data

\* C8: an as_bind_group call on the same material, resolving to the same
\* cache entry as the call before it, returns the same contents as that call:
\* the same entries, bindings, data and error.  (The bind group itself is a
\* new device object each time.)
C8_RepeatedCallSameContents == [][C8_Step]_vars

C8_Witness ==
    /\ prepared.repeated
    /\ prepared.result.ok
    /\ prepared.result.bind_group = 2

\* C9: a completed poll that finds a one-layer image with W > 0 and H = 6W
\* leaves the image with exactly 6 layers and a Cube texture view, and the
\* machine Loaded.
C9_StripBecomesCube ==
    (/\ polled.present
     /\ polled.layers = 1
     /\ polled.width > 0
     /\ polled.height = 6 * polled.width) =>
        /\ panic \notin {ReinterpretMessage, UnwrapMessage}
        /\ images[cubemap.image_handle].layers = 6
        /\ images[cubemap.image_handle].view_dimension = "Cube"
        /\ images[cubemap.image_handle].width = polled.width
        /\ images[cubemap.image_handle].height = polled.width
        /\ cubemap.is_loaded

C9_Witness ==
    /\ polled.present
    /\ polled.layers = 1
    /\ polled.width = MaxWidth
    /\ polled.height = 6 * polled.width
    /\ images[cubemap.image_handle].layers = 6

\* C10: a completed poll that finds a one-layer image with H # 6W rejects it:
\* the image is left as it was loaded, the machine stays in Loading and no
\* backdrop entity is spawned.
C10_MalformedRejected ==
    (/\ polled.present
     /\ polled.layers = 1
     /\ polled.width > 0
     /\ polled.height > 0
     /\ polled.height # 6 * polled.width) =>
        /\ images[cubemap.image_handle] = polled
        /\ ~cubemap.is_loaded
        /\ Len(cubes) + Len(commands) = 0

\* C11: at every tick boundary (cycle_cubemap_asset and asset_loaded have
\* both run and the process has not aborted) is_loaded is true exactly when a
\* poll of asset_loaded has seen the tracked handle Loaded; no swap is
\* reachable that would clear it afterwards.
C11_LoadedIffObserved ==
    (pc \in {"apply", "time"} /\ panic = "" /\ Len(requests) > 0) =>
        /\ cubemap.is_loaded <=> cubemap.image_handle \in observed
        /\ cubemap.is_loaded =>
              trace[Len(trace)] = <<"Loaded", cubemap.image_handle>>
        /\ ~cubemap.is_loaded =>
              trace[Len(trace)] = <<"Loading", cubemap.image_handle>>

C11_Witness ==
    /\ pc = "apply"
    /\ panic = ""
    /\ cubemap.is_loaded
    /\ cubemap.image_handle \in observed
    /\ now < MaxTime

\* C12: a completed poll that finds an image of more than one layer leaves
\* the image as it is (layer count and view dimension), and the
\* reinterpretation block applied to the image of a Loaded machine changes
\* nothing.
C12_ReinterpretIdempotent ==
    /\ (polled.present /\ polled.layers > 1) =>
          /\ images[cubemap.image_handle] = polled
          /\ panic \notin {ReinterpretMessage, UnwrapMessage}
          /\ cubemap.is_loaded
    /\ cubemap.is_loaded =>
          LET image == images[cubemap.image_handle]
          IN /\ image.layers = 1 =>
                   ~(image.height \div image.width = 0)
                   /\ image.height % (image.height \div image.width) = 0
             /\ Reinterpreted(image) = image

C12_Witness ==
    /\ polled.present
    /\ polled.layers = 6
    /\ polled.view_dimension = "None"
    /\ cubemap.is_loaded
    /\ images[cubemap.image_handle] = polled

\* What C13 asks of every state.
C13_State ==
    /\ NewIndex(cubemap) = cubemap.index
    /\ cubemap.index = 0
    /\ Len(requests) <= 1
    /\ pc # "startup" =>
          /\ requests = <<HandleOf(CUBEMAP_PATH)>>
          /\ cubemap.image_handle = HandleOf(CUBEMAP_PATH)

\* What C13 asks of every step.
C13_Step ==
    /\ pc # "startup" => cubemap'.image_handle = cubemap.image_handle
    /\ cubemap.is_loaded => cubemap'.is_loaded
    /\ (TimerFires /\ CUBEMAP_FORMAT \in FromFeatures(features)) =>
          cubemap' = cubemap

C14_Step ==
    /\ pc' = "poll" => pc \in {"cycle", "poll"}
    /\ (pc = "cycle" /\ pc' # pc) => pc' = "poll"
    /\ (pc = "poll" /\ pc' # pc) => pc' = "apply"
    /\ (pc = "apply" /\ pc' # pc) => pc' = "time"
    /\ now' # now => (pc = "time" /\ pc' = "cycle")
    /\ (pc = "poll" /\ pc' = pc /\ panic' = "") => cubemap' = cubemap
    /\ (~cubemap.is_loaded /\ cubemap'.is_loaded) =>
          /\ pc = "poll"
          /\ cubemap'.image_handle = cubemap.image_handle
          /\ cubemap.image_handle \in observed'
          /\ trace' = Append(trace, <<"Loaded", cubemap.image_handle>>)

\* C14: in every frame cycle_cubemap_asset runs, once, before asset_loaded
\* polls, once; nothing writes the Cubemap between the two, so asset_loaded
\* polls the handle the cycler left and marks only that handle Loaded.
C14_CyclerBeforePoll == [][C14_Step]_vars

C14_Witness ==
    /\ pc = "apply"
    /\ last_fired = now
    /\ trace[Len(trace)] = <<"Loaded", cubemap.image_handle>>
    /\ polled = images[cubemap.image_handle]

\* cycle_cubemap_asset gets past its timer check: the deadline moves.
Passes == CycleStep /\ next_swap # 0 /\ next_swap' # next_swap

\* C15 as claimed: between two passes of the timer check at least
\* CUBEMAP_SWAP_DELAY seconds have elapsed.
C15_PassesADelayApart ==
    [][(Passes /\ last_fired > 0) => now - last_fired >= CUBEMAP_SWAP_DELAY]_vars

\* What the amended C15 asks of every step.
C15_Step ==
    Passes =>
        /\ now >= next_swap
        /\ next_swap' = next_swap + CUBEMAP_SWAP_DELAY
        /\ last_fired' = now
        /\ last_fired > 0 => last_fired >= next_swap - CUBEMAP_SWAP_DELAY

\* C15, amended: a pass of the timer check happens at or after the deadline
\* next_swap and moves the deadline on by exactly CUBEMAP_SWAP_DELAY, so a
\* pass comes at least CUBEMAP_SWAP_DELAY after the deadline of the pass
\* before it, not after that pass itself.
C15_PassesFollowDeadlines ==
    /\ [](last_fired > 0 => last_fired >= next_swap - CUBEMAP_SWAP_DELAY)
    /\ [][C15_Step]_vars

\* A second pass, made after its deadline.
C15_Witness ==
    /\ pc = "poll"
    /\ last_fired = now
    /\ now > next_swap - CUBEMAP_SWAP_DELAY
    /\ next_swap - 3 * CUBEMAP_SWAP_DELAY > 0

\* What C16 asks of every step.
C16_Step ==
    /\ (CycleStep /\ panic = "") =>
          /\ next_swap' =
                IF next_swap = 0 THEN now + CUBEMAP_SWAP_DELAY
                ELSE IF now < next_swap THEN next_swap
                ELSE next_swap + CUBEMAP_SWAP_DELAY
          /\ last_fired' # last_fired <=> (next_swap # 0 /\ now >= next_swap)
    /\ ~CycleStep => (next_swap' = next_swap /\ last_fired' = last_fired)

\* C16: whether cycle_cubemap_asset passes its timer check, and the deadline
\* it leaves, are a function of the elapsed time and next_swap alone, in every
\* load state; the timer fires while the machine is still Loading.
C16_TimerIgnoresLoadState == [][C16_Step]_vars

C16_Witness ==
    /\ pc = "poll"
    /\ panic = ""
    /\ last_fired = now
    /\ ~cubemap.is_loaded
    /\ load_state[cubemap.image_handle] = "Loading"

\* What C17 asks of every step.
C17_Step ==
    /\ (\/ prepared' # prepared
        \/ bind_groups' # bind_groups
        \/ pc' = pc /\ panic' = panic /\ load_state' = load_state) =>
          /\ cubemap' = cubemap
          /\ cubemap_materials' = cubemap_materials
          /\ images' = images
          /\ cubes' = cubes
          /\ commands' = commands
    /\ cubemap' # cubemap => (pc \in {"startup", "cycle", "poll"} /\ pc' # pc)

\* C17: a call of as_bind_group, whether it returns a bind group or
\* RetryNextUpdate, leaves the Cubemap resource, every material's
\* base_color_texture and every image unchanged; the Cubemap resource is
\* written only by setup, cycle_cubemap_asset and asset_loaded.
C17_BindingHasNoSideEffects == [][C17_Step]_vars

\* as_bind_group has returned a bind group for the loaded backdrop.
C17_Witness ==
    /\ cubemap.is_loaded
    /\ bind_groups = 1
    /\ prepared.called
    /\ prepared.result.ok
    /\ prepared.material.base_color_texture = cubemap.image_handle
    /\ Len(cubemap_materials) = 1
    /\ cubemap_materials[1].base_color_texture = cubemap.image_handle
    /\ images[cubemap.image_handle].layers = 6

\* C18: while the asset server has not reported Loaded for the tracked
\* handle (NotLoaded, Loading or Failed), is_loaded is false, the only load
\* request is the one setup issued, there is no backdrop entity and no
\* material, as_bind_group has produced nothing, and the machine is in
\* Loading: nothing retries and a failed load changes nothing.
C18_NoProgressWithoutLoaded ==
    (pc # "startup" /\ load_state[cubemap.image_handle] # "Loaded") =>
        /\ ~cubemap.is_loaded
        /\ requests = <<HandleOf(CUBEMAP_PATH)>>
        /\ cubes = <<>>
        /\ commands = <<>>
        /\ cubemap_materials = <<>>
        /\ bind_groups = 0
        /\ ~prepared.called
        /\ panic \in {"", UnsupportedMessage}
        /\ trace[Len(trace)] = <<"Loading", cubemap.image_handle>>

\* The load failed and the frames ran on past timer firings to the end.
C18_Witness ==
    /\ pc = "time"
    /\ now = MaxTime
    /\ load_state[cubemap.image_handle] = "Failed"
    /\ panic = ""
    /\ last_fired > 0

\* What C19 asks of every state.
C19_State ==
    /\ panic = UnsupportedMessage =>
          /\ CUBEMAP_FORMAT \notin FromFeatures(features)
          /\ pc = "cycle"
          /\ last_fired = now
          /\ now >= next_swap - CUBEMAP_SWAP_DELAY
          /\ now > CUBEMAP_SWAP_DELAY
    /\ (CUBEMAP_FORMAT \notin FromFeatures(features) /\ last_fired > 0) =>
          panic = UnsupportedMessage

\* What C19 asks of every step.
C19_Step ==
    /\ (CycleStep /\ panic = "") =>
          (panic' = UnsupportedMessage <=>
              /\ next_swap # 0
              /\ now >= next_swap
              /\ CUBEMAP_FORMAT \notin FromFeatures(features))
    /\ ~CycleStep => (panic' = UnsupportedMessage <=> panic = UnsupportedMessage)

\* C19: cycle_cubemap_asset checks the device's formats on every timer
\* firing, before it compares the indices and whatever is_loaded is, and on no
\* other tick: a device without the format aborts at the first firing, also
\* while still Loading, and never before the first interval has elapsed.
C19_CheckOnEveryFiring == []C19_State /\ [][C19_Step]_vars

C19_Witness ==
    /\ panic = UnsupportedMessage
    /\ ~cubemap.is_loaded
    /\ load_state[cubemap.image_handle] = "Loading"

\* C20: whenever is_loaded is true, the material of every backdrop entity,
\* spawned or still queued, has base_color_texture set to the tracked handle,
\* and the tracked image is the polled one after the reinterpretation.
C20_LoadedMeansTextured ==
    cubemap.is_loaded =>
        /\ Len(cubes) + Len(commands) >= 1
        /\ \A i \in DOMAIN cubes :
              /\ cubes[i] \in DOMAIN cubemap_materials
              /\ cubemap_materials[cubes[i]].base_color_texture =
                    cubemap.image_handle
        /\ \A i \in DOMAIN commands :
              /\ commands[i] \in DOMAIN cubemap_materials
              /\ cubemap_materials[commands[i]].base_color_texture =
                    cubemap.image_handle
        /\ cubemap.image_handle # 0
        /\ images[cubemap.image_handle].present
        /\ polled.layers = 1 =>
              /\ images[cubemap.image_handle].view_dimension = "Cube"
              /\ images[cubemap.image_handle].layers =
                    polled.height \div polled.width
              /\ images[cubemap.image_handle].layers *
                    images[cubemap.image_handle].height = polled.height
        /\ polled.layers # 1 => images[cubemap.image_handle] = polled

C20_Witness ==
    /\ cubemap.is_loaded
    /\ pc = "time"
    /\ Len(cubes) = 1
    /\ cubemap_materials[cubes[1]].base_color_texture = cubemap.image_handle
    /\ polled.layers = 1
    /\ polled.height = 6 * polled.width
    /\ images[cubemap.image_handle].layers = 6
    /\ images[cubemap.image_handle].view_dimension = "Cube"

\* ------------------------------------------- bind-group preparation alone
\* The render world at work on a loaded scene: the backdrop's material holds
\* any texture reference or none, and the cache fills as images are prepared.
CubeImage ==
    [present |-> TRUE, width |-> 1, height |-> 1, layers |-> 6,
     view_dimension |-> "None"]

BindInit ==
    /\ pc = "render"
    /\ now = 0
    /\ next_swap = 0
    /\ last_fired = 0
    /\ features = DeviceFeatures
    /\ cubemap \in {[is_loaded |-> l, index |-> 0,
                     image_handle |-> HandleOf(CUBEMAP_PATH)] : l \in BOOLEAN}
    /\ load_state = [h \in Handles |-> "Loaded"]
    /\ images = [h \in Handles |-> CubeImage]
    /\ cubemap_materials \in {<<[base_color_texture |-> t]>> : t \in OptHandles}
    /\ cubes = <<1>>
    /\ commands = <<>>
    /\ render_images = [h \in Handles |-> NoGpuImage]
    /\ bind_groups = 0
    /\ prepared = NotPrepared
    /\ panic = ""
    /\ requests = <<HandleOf(CUBEMAP_PATH)>>
    /\ polled = NoImage
    /\ observed = {}
    /\ trace = <<<<"Unloaded", 0>>>>

BindNext ==
    \/ PrepareImage
    \/ PrepareMaterial

BindSpec == BindInit /\ [][BindNext]_vars
====
